---- MODULE Spec2Model ----
(***************************************************************************)
(* A model of sdtconvert.c: the rewriting of DTrace SDT probe call sites   *)
(* in relocatable ELF objects.                                             *)
(*                                                                         *)
(* Representation.  Names are strings.  A 64-bit word that the code        *)
(* handles with bit operations (r_info) is the set of the positions of     *)
(* its one bits, 0 being the least significant.  A section is a record     *)
(* holding its header fields and its data; the position of a section in    *)
(* e.scns is its ELF section index (elf_nextscn never yields index 0).     *)
(* The section header string table is a string in which the character      *)
(* NUL stands for the terminating zero byte of each name.                  *)
(***************************************************************************)
EXTENDS Integers, Sequences, FiniteSets, TLC

(***************************************************************************)
(* Bounds of the model.                                                    *)
(***************************************************************************)
\* the longest list of text relocations an input object carries
MaxSites == 2
\* the longest argument list of one invocation
MaxArgs == 2

(***************************************************************************)
(* Program constants.                                                      *)
(***************************************************************************)
AMD64_CALL == 232
AMD64_JMP32 == 233
AMD64_NOP == 144
AMD64_RETQ == 195

probe_prefix == "__dtrace_probe_"
prefixlen == Len(probe_prefix)

\* sizeof(struct sdt_instance): two 64-bit fields
SdtInstanceSize == 16

\* R_X86_64_NONE is 0: no bit set
R_X86_64_NONE == {}

NUL == "0"

(***************************************************************************)
(* C string functions.                                                     *)
(***************************************************************************)
Min(a, b) == IF a < b THEN a ELSE b

strlen(s) == Len(s)

\* 0 when the first n characters (or the whole strings, if shorter) agree
strncmp(s1, s2, n) ==
    IF SubSeq(s1, 1, Min(n, Len(s1))) = SubSeq(s2, 1, Min(n, Len(s2)))
    THEN 0 ELSE 1

strcmp(s1, s2) == IF s1 = s2 THEN 0 ELSE 1

\* the string a pointer s + k points to (k <= strlen(s))
PtrAdd(s, k) == SubSeq(s, k + 1, Len(s))

(***************************************************************************)
(* 64-bit words as sets of bit positions.                                  *)
(***************************************************************************)
WordBits == 0..63

BitAnd(a, b) == a \cap b
BitOr(a, b) == a \cup b
BitNot(a) == WordBits \ a

\* ELF64_R_TYPE(info) is info & 0xffffffff, ELF64_R_SYM(info) is info >> 32
GELF_R_TYPE(info) == BitAnd(info, 0..31)
GELF_R_SYM(info) == {b - 32 : b \in info \cap (32..63)}

RECURSIVE Pow2(_)
Pow2(n) == IF n = 0 THEN 1 ELSE 2 * Pow2(n - 1)

RECURSIVE BitsToNat(_)
BitsToNat(bits) ==
    IF bits = {} THEN 0
    ELSE LET b == CHOOSE x \in bits : TRUE
         IN  Pow2(b) + BitsToNat(bits \ {b})

\* the bits of a small number (symbol indices of the inputs are below 8)
NatToBits(n) == {b \in 0..2 : (n \div Pow2(b)) % 2 = 1}

\* ELF64_R_INFO(sym, type), as the compiler wrote it into the input
MkInfo(sym, type) == {b + 32 : b \in NatToBits(sym)} \cup type

(***************************************************************************)
(* The ELF object as libelf presents it.                                   *)
(*   e.scns[k]: the section of index k, a record of its header fields,     *)
(*   its data and the ELF_F_DIRTY flag of its data descriptor.             *)
(*   The data of a relocation section is the sequence of its entries       *)
(*   [r_offset, r_info]; that of a symbol table the sequence of its        *)
(*   symbols, symbol 0 first; that of a PROGBITS section holding code a    *)
(*   sequence of bytes; that of a string table a string.                   *)
(***************************************************************************)
NULLSTR == "<NULL>"

\* the section index that stands for "no section" (a NULL Elf_Scn pointer)
NOSCN == 0

\* elf_strptr on a string table section: the NUL-terminated string at offset
elf_strptr(strscn, offset) ==
    LET s == strscn.data
        ends == {j \in (offset + 1)..Len(s) : SubSeq(s, j, j) = NUL}
    IN  IF offset >= strscn.sh_size \/ ends = {}
        THEN NULLSTR
        ELSE LET j == CHOOSE x \in ends : \A y \in ends : x <= y
             IN  SubSeq(s, offset + 1, j - 1)

get_scn_name(e, scn) == elf_strptr(e.scns[e.e_shstrndx], e.scns[scn].sh_name)

\* the first section of that name, in section order, or NOSCN
section_by_name(e, name) ==
    LET hits == {k \in 1..Len(e.scns) : strcmp(get_scn_name(e, k), name) = 0}
    IN  IF hits = {} THEN NOSCN
        ELSE CHOOSE k \in hits : \A m \in hits : k <= m

\* symlookup: the bounds check, then the symbol of index ndx
SymInRange(symtab, ndx) == ~(Len(symtab.data) < ndx + 1)
symlookup(symtab, ndx) == symtab.data[ndx + 1]

NewScn(name_off, type, flags) ==
    [sh_name |-> name_off, sh_type |-> type, sh_flags |-> flags,
     sh_addralign |-> 8, sh_link |-> 0, sh_info |-> 0, sh_size |-> 0,
     sh_entsize |-> 0, data |-> <<>>, d_dirty |-> FALSE]

\* add_section, with the new name stored one name too far
add_section_NameAfter(e, name, type, flags) ==
    LET ndx == e.e_shstrndx
        len == strlen(name) + 1
        strsize == e.scns[ndx].sh_size + len
    IN  [e EXCEPT !.scns =
            Append([@ EXCEPT ![ndx] = [@ EXCEPT !.sh_size = strsize,
                                                !.data = @ \o name \o NUL]],
                   NewScn(strsize, type, flags))]

\* add_section: the name goes to the end of the section header string
\* table, the new section (the last of e.scns) is named by its offset
add_section(e, name, type, flags) ==
    LET ndx == e.e_shstrndx
        len == strlen(name) + 1
        strsize == e.scns[ndx].sh_size + len
    IN  [e EXCEPT !.scns =
            Append([@ EXCEPT ![ndx] = [@ EXCEPT !.sh_size = strsize,
                                                !.data = @ \o name \o NUL]],
                   NewScn(strsize - len, type, flags))]

(***************************************************************************)
(* process_rel: one relocation against the text section.                   *)
(***************************************************************************)
\* target[k] of the C code: bytes are numbered from 0
Byte(target, k) == target[k + 1]

\* a filter that compares only the first three characters
IsProbeStub_Short(symname) == strncmp(symname, probe_prefix, prefixlen - 12) = 0

\* the filter: the symbol's name begins with the probe prefix
IsProbeStub(symname) == strncmp(symname, probe_prefix, prefixlen) = 0

\* the patch without the return that replaces a tail call
PatchText_NoRet(target, offset, opc) ==
    [k \in 1..Len(target) |->
        IF k - 1 \in (offset - 1)..(offset + 3) THEN AMD64_NOP ELSE target[k]]

\* memset(&target[offset - 1], AMD64_NOP, 5), then RETQ over a tail call
PatchText(target, offset, opc) ==
    LET nops == [k \in 1..Len(target) |->
                    IF k - 1 \in (offset - 1)..(offset + 3)
                    THEN AMD64_NOP ELSE target[k]]
    IN  IF opc = AMD64_JMP32
        THEN [nops EXCEPT ![offset] = AMD64_RETQ]
        ELSE nops

\* a reset that clears the bits of one relocation type (R_X86_64_PC32)
NeutralizeInfo_OneType(info) == BitOr(BitAnd(info, BitNot({1})), R_X86_64_NONE)

\* *info &= ~GELF_R_TYPE(*info); *info |= R_X86_64_NONE
NeutralizeInfo(info) ==
    BitOr(BitAnd(info, BitNot(GELF_R_TYPE(info))), R_X86_64_NONE)

\* an insertion at the tail of the list
SLIST_INSERT_TAIL(plist, inst) == Append(plist, inst)

\* SLIST_INSERT_HEAD: the new instance becomes the first of the list
SLIST_INSERT_HEAD(plist, inst) == <<inst>> \o plist

RelResult(ret, target, info, plist, err) ==
    [ret |-> ret, target |-> target, info |-> info, plist |-> plist,
     err |-> err]

\* err is "" unless errx(1, ...) was called; ret is the value returned
process_rel(e, symtab, target, offset, info, plist) ==
    LET ndx == BitsToNat(GELF_R_SYM(info))
        Fatal(msg) == RelResult(1, target, info, plist, msg)
    IN  IF ~SymInRange(symtab, ndx) THEN Fatal("invalid symbol index")
        ELSE
        LET sym == symlookup(symtab, ndx)
            symname == sym.st_name
            opc == Byte(target, offset - 1)
        IN  IF ~IsProbeStub(symname)
            THEN RelResult(1, target, info, plist, "")
            ELSE IF sym.st_type # "STT_NOTYPE"
            THEN Fatal("unexpected symbol type")
            ELSE IF sym.st_bind # "STB_GLOBAL"
            THEN Fatal("unexpected binding")
            ELSE IF e.e_machine # "EM_X86_64"
            THEN Fatal("unhandled machine type")
            ELSE IF opc # AMD64_CALL /\ opc # AMD64_JMP32
            THEN Fatal("unexpected opcode")
            ELSE IF \/ Byte(target, offset + 0) # 0
                    \/ Byte(target, offset + 1) # 0
                    \/ Byte(target, offset + 2) # 0
                    \/ Byte(target, offset + 3) # 0
            THEN Fatal("unexpected addr")
            ELSE RelResult(0, PatchText(target, offset, opc),
                           NeutralizeInfo(info),
                           SLIST_INSERT_HEAD(plist,
                               [symname |-> symname, offset |-> offset]),
                           "")

(***************************************************************************)
(* process_reloc_scn: every entry of one relocation section.               *)
(***************************************************************************)
IsRelType(t) == t = "SHT_REL" \/ t = "SHT_RELA"

NumEntries(shdr) == shdr.sh_size \div shdr.sh_entsize

ScanResult(e, plist, err) == [e |-> e, plist |-> plist, err |-> err]

\* the loop over the entries, from entry i (numbered from 0) on
RECURSIVE ScanEntries(_, _, _, _)
ScanEntries(e, scn, i, plist) ==
    LET shdr == e.scns[scn]
        targ == shdr.sh_info
    IN  IF ~(i < NumEntries(shdr)) THEN ScanResult(e, plist, "")
        ELSE
        LET rel == shdr.data[i + 1]
            r == process_rel(e, e.scns[shdr.sh_link], e.scns[targ].data,
                             rel.r_offset, rel.r_info, plist)
        IN  IF r.err # "" THEN ScanResult(e, plist, r.err)
            ELSE IF r.ret # 0 THEN ScanEntries(e, scn, i + 1, plist)
            ELSE
            LET e1 == [e EXCEPT
                        !.scns[targ].data = r.target,
                        !.scns[targ].d_dirty = TRUE,
                        !.scns[scn].data[i + 1].r_info = r.info,
                        !.scns[scn].d_dirty = TRUE]
            IN  ScanEntries(e1, scn, i + 1, r.plist)

process_reloc_scn(e, scn, plist) ==
    LET shdr == e.scns[scn]
    IN  IF shdr.sh_info > Len(e.scns)
        THEN ScanResult(e, plist, "failed to look up relocation section")
        ELSE IF shdr.sh_info = 0
        THEN ScanResult(e, plist, "failed to look up target section data")
        ELSE IF strcmp(get_scn_name(e, shdr.sh_info), ".text") # 0
        THEN ScanResult(e, plist, "")
        ELSE ScanEntries(e, scn, 0, plist)

(***************************************************************************)
(* record_instance: one record of the instance set, and the search for     *)
(* the probe the instance belongs to.                                      *)
(***************************************************************************)
\* the relocation section of the probe linker set: the first REL or RELA
\* section whose sh_info is probescn, or NOSCN
FindProbeRelScn(e, probescn) ==
    LET hits == {k \in 1..Len(e.scns) :
                    /\ IsRelType(e.scns[k].sh_type)
                    /\ e.scns[k].sh_info = probescn}
    IN  IF hits = {} THEN NOSCN
        ELSE CHOOSE k \in hits : \A m \in hits : k <= m

\* a search that accepts the first relocation of the probe linker set
FindProbeReloc_Any(e, proberelscn, symname) ==
    NumEntries(e.scns[proberelscn]) > 0

\* found: some relocation of the probe linker set has a symbol whose name,
\* past its first four characters, is the instance's name past the prefix
FindProbeReloc(e, proberelscn, symname) ==
    LET shdr == e.scns[proberelscn]
        symtab == e.scns[shdr.sh_link]
    IN  \E i \in 0..(NumEntries(shdr) - 1) :
            LET info == shdr.data[i + 1].r_info
                name == symlookup(symtab, BitsToNat(GELF_R_SYM(info))).st_name
            IN  /\ ~(strlen(name) < prefixlen)
                /\ strcmp(PtrAdd(name, strlen("sdt_")),
                          PtrAdd(symname, prefixlen)) = 0

record_instance(e, instscn, inst) ==
    LET sdtinst == [probe |-> 0, offset |-> inst.offset]
        e1 == [e EXCEPT !.scns[instscn].data = Append(@, sdtinst)]
        size == e.scns[instscn].sh_size + SdtInstanceSize
        probescn == section_by_name(e1, "set_sdt_probes_set")
        proberelscn == FindProbeRelScn(e1, probescn)
    IN  IF probescn = NOSCN
        THEN [e |-> e1, err |-> "couldn't find SDT probe linker set"]
        ELSE IF proberelscn = NOSCN
        THEN [e |-> e1, err |->
                "couldn't find reloc section for SDT probe linker set"]
        ELSE IF ~FindProbeReloc(e1, proberelscn, inst.symname)
        THEN [e |-> e1, err |-> "failed to find SDT probe relocation"]
        ELSE [e |-> [e1 EXCEPT !.scns[instscn].sh_size = size], err |-> ""]

(***************************************************************************)
(* The input objects: relocatable objects as the compiler writes them.     *)
(***************************************************************************)
Sym(name, type, bind) == [st_name |-> name, st_type |-> type, st_bind |-> bind]

\* symbol indices of ProbeSyms
SymMemcpy == 1
SymProbeFoo == 2
SymProbeLong == 3
SymSdtFoo == 4
SymSdtLong == 5

ProbeSyms ==
    << Sym("", "STT_NOTYPE", "STB_LOCAL"),
       Sym("memcpy", "STT_NOTYPE", "STB_GLOBAL"),
       Sym("__dtrace_probe_foo", "STT_NOTYPE", "STB_GLOBAL"),
       Sym("__dtrace_probe_prov_mod_fn", "STT_NOTYPE", "STB_GLOBAL"),
       Sym("sdt_foo", "STT_OBJECT", "STB_GLOBAL"),
       Sym("sdt_prov_mod_fn", "STT_OBJECT", "STB_GLOBAL") >>

\* the same table in an object that has no probe: no probe stub symbol
PlainSyms ==
    << Sym("", "STT_NOTYPE", "STB_LOCAL"),
       Sym("memcpy", "STT_NOTYPE", "STB_GLOBAL"),
       Sym("__divti3", "STT_NOTYPE", "STB_GLOBAL"),
       Sym("_dtrace_probe_foo", "STT_NOTYPE", "STB_GLOBAL"),
       Sym("sdt_foo", "STT_OBJECT", "STB_GLOBAL"),
       Sym("sdt_prov_mod_fn", "STT_OBJECT", "STB_GLOBAL") >>

\* a probe stub symbol the compiler would not write: a function symbol
OddSyms == [ProbeSyms EXCEPT ![SymProbeLong + 1].st_type = "STT_FUNC"]

\* a call site: the opcode byte, the first byte of the displacement and the
\* symbol the relocation names
Site(opc, disp, sym) == [opc |-> opc, disp |-> disp, sym |-> sym]

\* 255 is the opcode of an indirect call: neither CALL rel32 nor JMP rel32
SiteKinds ==
    { Site(AMD64_CALL, 0, SymProbeLong), Site(AMD64_JMP32, 0, SymProbeLong),
      Site(AMD64_CALL, 0, SymProbeFoo), Site(AMD64_CALL, 0, SymMemcpy),
      Site(255, 0, SymProbeLong), Site(AMD64_CALL, 4, SymProbeLong) }

PlainSiteKinds == { Site(AMD64_CALL, 0, SymMemcpy), Site(AMD64_JMP32, 0, 2) }

SeqsUpTo(S, n) == UNION {[1..k -> S] : k \in 0..n}

\* original relocation types: R_X86_64_PC32 (2), R_X86_64_PLT32 (4) and a
\* type with every bit of the field set
RelTypes == { {1}, {2}, 0..31 }

\* site s occupies six bytes of the text: opcode, displacement, push %rbp
SiteOffset(s) == 6 * (s - 1) + 1

RECURSIVE TextOf(_)
TextOf(sites) ==
    IF sites = <<>> THEN <<AMD64_RETQ>>
    ELSE <<Head(sites).opc, Head(sites).disp, 0, 0, 0, 85>> \o TextOf(Tail(sites))

Rel(offset, sym, type) == [r_offset |-> offset, r_info |-> MkInfo(sym, type)]

RelsOf(sites, order, type) ==
    [k \in 1..Len(order) |->
        Rel(SiteOffset(order[k]), sites[order[k]].sym, type)]

\* the site numbers in .rela.text (section 2) and in .rel.text (section 3)
RelaOrder(n, layout) ==
    CASE layout = "asc" -> [k \in 1..n |-> k]
      [] layout = "desc" -> [k \in 1..n |-> n + 1 - k]
      [] layout = "split" -> [k \in 1..(n - 1) |-> k + 1]
RelOrder(n, layout) == IF layout = "split" /\ n > 0 THEN <<1>> ELSE <<>>

Layouts == {"asc", "desc", "split"}

\* the relocations of set_sdt_probes_set: "absent" (no such section),
\* "norel" (the section without a relocation section) or symbol indices
ProbeSets == {"absent", "norel", "foo", "both"}
ProbeSetSyms(pset) ==
    CASE pset = "foo" -> <<SymSdtFoo>>
      [] pset = "both" -> <<SymSdtFoo, SymSdtLong>>
      [] OTHER -> <<>>

Scn(type, flags, link, info, entsize, size, data) ==
    [sh_name |-> 0, sh_type |-> type, sh_flags |-> flags, sh_addralign |-> 1,
     sh_link |-> link, sh_info |-> info, sh_size |-> size,
     sh_entsize |-> entsize, data |-> data, d_dirty |-> FALSE]

RelScn(type, target, rels) ==
    LET entsize == IF type = "SHT_RELA" THEN 24 ELSE 16
    IN  Scn(type, {}, 6, target, entsize, entsize * Len(rels), rels)

BaseNames ==
    <<".text", ".rela.text", ".rel.text", ".data", ".rela.data", ".symtab",
      ".strtab", ".shstrtab">>
ProbeSetNames == <<"set_sdt_probes_set", ".relaset_sdt_probes_set">>

RECURSIVE StrTabOf(_)
StrTabOf(names) ==
    IF names = <<>> THEN NUL
    ELSE StrTabOf(SubSeq(names, 1, Len(names) - 1))
            \o names[Len(names)] \o NUL

\* the offset of names[k] in StrTabOf(names)
NameOffset(names, k) == Len(StrTabOf(SubSeq(names, 1, k - 1)))

MkObj(etype, machine, syms, sites, layout, type, pset) ==
    LET n == Len(sites)
        names == BaseNames \o
                 (CASE pset = "absent" -> <<>>
                    [] pset = "norel" -> <<ProbeSetNames[1]>>
                    [] OTHER -> ProbeSetNames)
        strtab == StrTabOf(names)
        text == TextOf(sites)
        datarels == <<Rel(0, SymProbeLong, {0})>>
        psetrels == [k \in 1..Len(ProbeSetSyms(pset)) |->
                        Rel(8 * (k - 1), ProbeSetSyms(pset)[k], {0})]
        base == << Scn("SHT_PROGBITS", {"SHF_ALLOC", "SHF_EXECINSTR"},
                       0, 0, 0, Len(text), text),
                   RelScn("SHT_RELA", 1, RelsOf(sites, RelaOrder(n, layout), type)),
                   RelScn("SHT_REL", 1, RelsOf(sites, RelOrder(n, layout), type)),
                   Scn("SHT_PROGBITS", {"SHF_ALLOC", "SHF_WRITE"},
                       0, 0, 0, 8, <<0, 0, 0, 0, 0, 0, 0, 0>>),
                   RelScn("SHT_RELA", 4, datarels),
                   Scn("SHT_SYMTAB", {}, 7, 1, 24, 24 * Len(syms), syms),
                   Scn("SHT_STRTAB", {}, 0, 0, 0, 0, ""),
                   Scn("SHT_STRTAB", {}, 0, 0, 0, Len(strtab), strtab) >>
        more == CASE pset = "absent" -> <<>>
                  [] pset = "norel" ->
                        <<Scn("SHT_PROGBITS", {"SHF_ALLOC"}, 0, 0, 0, 0, <<>>)>>
                  [] OTHER ->
                        <<Scn("SHT_PROGBITS", {"SHF_ALLOC"}, 0, 0, 0,
                              8 * Len(psetrels), <<>>),
                          RelScn("SHT_RELA", 9, psetrels)>>
        scns == base \o more
    IN  [e_type |-> etype, e_machine |-> machine, e_shstrndx |-> 8,
         scns |-> [k \in 1..Len(scns) |->
                      [scns[k] EXCEPT !.sh_name = NameOffset(names, k)]]]

\* objects with probe call sites: every list of sites with every probe
\* linker set, in every layout and with every original relocation type
ProbeObjects ==
    { MkObj("ET_REL", "EM_X86_64", ProbeSyms, sites, "asc", {1}, pset) :
        sites \in SeqsUpTo(SiteKinds, MaxSites), pset \in ProbeSets }
    \cup
    { MkObj("ET_REL", "EM_X86_64", ProbeSyms, sites, layout, {1}, "both") :
        sites \in SeqsUpTo(SiteKinds, MaxSites), layout \in Layouts }
    \cup
    { MkObj("ET_REL", "EM_X86_64", ProbeSyms, sites, "asc", type, "both") :
        sites \in SeqsUpTo(SiteKinds, MaxSites), type \in RelTypes }

\* objects without a probe stub symbol
PlainObjects ==
    { MkObj("ET_REL", "EM_X86_64", PlainSyms, sites, "asc", {1}, pset) :
        sites \in SeqsUpTo(PlainSiteKinds, MaxSites),
        pset \in {"absent", "foo"} }

\* objects the tool refuses: an executable, an object for another machine,
\* an object whose probe stub symbol is a function symbol
ExecObject ==
    MkObj("ET_EXEC", "EM_X86_64", ProbeSyms,
          <<Site(AMD64_CALL, 0, SymProbeLong)>>, "asc", {1}, "both")
OddObjects ==
    { ExecObject,
      MkObj("ET_REL", "EM_386", ProbeSyms,
            <<Site(AMD64_CALL, 0, SymProbeLong)>>, "asc", {1}, "both"),
      MkObj("ET_REL", "EM_X86_64", OddSyms,
            <<Site(AMD64_CALL, 0, SymProbeLong)>>, "asc", {1}, "both") }

\* what the second file holds: an executable or an object without probes
SecondObjects ==
    { ExecObject,
      MkObj("ET_REL", "EM_X86_64", PlainSyms,
            <<Site(AMD64_CALL, 0, SymMemcpy)>>, "asc", {1}, "absent") }

InputObjects == ProbeObjects \cup PlainObjects \cup OddObjects

(***************************************************************************)
(* The program: main calls process_obj on each argument in turn.           *)
(***************************************************************************)
VARIABLES
    argv,       \* the object files named on the command line
    disk,       \* the contents of each file
    pc,         \* where the program is
    i,          \* main's loop index (argv[i] is the file being processed)
    e,          \* process_obj's ELF descriptor: the object in memory
    plist,      \* process_obj's list of probe instances, head first
    instscn,    \* the section added for the instance set
    instrelscn, \* the section added for its relocations
    handles,    \* loop indices whose ELF descriptor is not ended
    fds,        \* loop indices whose file descriptor is not closed
    written,    \* the files elf_update has written
    status      \* the exit status, once pc = "exit"

vars == <<argv, disk, pc, i, e, plist, instscn, instrelscn, handles, fds,
          written, status>>

Files == {1, 2}

NoElf == [e_type |-> "none", e_machine |-> "none", e_shstrndx |-> 0,
          scns |-> <<>>]

ArgLists == UNION {[1..k -> Files] : k \in 1..MaxArgs}

Init ==
    /\ argv \in ArgLists
    /\ \E o1 \in InputObjects, o2 \in SecondObjects :
            disk = [f \in Files |-> IF f = 1 THEN o1 ELSE o2]
    /\ pc = "main"
    /\ i = 1
    /\ e = NoElf
    /\ plist = <<>>
    /\ instscn = NOSCN
    /\ instrelscn = NOSCN
    /\ handles = {}
    /\ fds = {}
    /\ written = {}
    /\ status = 0

\* the loop over the sections, from section scn on
RECURSIVE ScanScns(_, _, _)
ScanScns(el, scn, pl) ==
    IF scn > Len(el.scns) THEN ScanResult(el, pl, "")
    ELSE IF ~IsRelType(el.scns[scn].sh_type) THEN ScanScns(el, scn + 1, pl)
    ELSE LET r == process_reloc_scn(el, scn, pl)
         IN  IF r.err # "" THEN r ELSE ScanScns(r.e, scn + 1, r.plist)

\* errx(1, ...): the process ends at once, nothing is released or written
Errx(el, pl) ==
    /\ pc' = "exit"
    /\ status' = 1
    /\ e' = el
    /\ plist' = pl
    /\ UNCHANGED <<argv, disk, i, instscn, instrelscn, handles, fds, written>>

\* process_obj returns to main's loop; its local variables are gone
Return ==
    /\ pc' = "main"
    /\ i' = i + 1
    /\ e' = NoElf
    /\ plist' = <<>>
    /\ instscn' = NOSCN
    /\ instrelscn' = NOSCN

\* main calls process_obj: open, elf_begin, gelf_getehdr, the type check
OpenObj ==
    /\ pc = "main"
    /\ i <= Len(argv)
    /\ handles' = handles \cup {i}
    /\ fds' = fds \cup {i}
    /\ IF disk[argv[i]].e_type # "ET_REL"
       THEN Return
       ELSE /\ e' = disk[argv[i]]
            /\ plist' = <<>>
            /\ pc' = "scan"
            /\ UNCHANGED <<i, instscn, instrelscn>>
    /\ UNCHANGED <<argv, disk, written, status>>

\* the loop over the sections: the relocations for probe stub calls
ScanObj ==
    /\ pc = "scan"
    /\ LET r == ScanScns(e, 1, plist)
       IN  IF r.err # "" THEN Errx(r.e, r.plist)
           ELSE /\ e' = r.e
                /\ plist' = r.plist
                /\ pc' = "scanned"
                /\ UNCHANGED <<argv, disk, i, instscn, instrelscn, handles,
                               fds, written, status>>

\* no instance: return; else add the two sections
AddSections ==
    /\ pc = "scanned"
    /\ IF plist = <<>>
       THEN /\ Return
            /\ UNCHANGED <<handles, fds>>
       ELSE LET e1 == add_section(e, "set_sdt_instance_set", "SHT_PROGBITS",
                                  {"SHF_ALLOC"})
                e2 == add_section(e1, ".relaset_sdt_instance_set", "SHT_RELA",
                                  {})
            IN  /\ e' = e2
                /\ instscn' = Len(e1.scns)
                /\ instrelscn' = Len(e2.scns)
                /\ pc' = "record"
                /\ UNCHANGED <<i, plist, handles, fds>>
    /\ UNCHANGED <<argv, disk, written, status>>

\* one turn of the loop over the list: record_instance, SLIST_REMOVE, free
RecordInstance ==
    /\ pc = "record"
    /\ plist # <<>>
    /\ LET r == record_instance(e, instscn, Head(plist))
       IN  IF r.err # "" THEN Errx(r.e, plist)
           ELSE /\ e' = r.e
                /\ plist' = Tail(plist)
                /\ UNCHANGED <<argv, disk, pc, i, instscn, instrelscn,
                               handles, fds, written, status>>

\* what elf_update writes: the object in memory, no descriptor dirty
Image(el) ==
    [el EXCEPT !.scns = [k \in 1..Len(el.scns) |->
                            [el.scns[k] EXCEPT !.d_dirty = FALSE]]]

\* the list is empty: elf_update, elf_end, close, return
Flush ==
    /\ pc = "record"
    /\ plist = <<>>
    /\ disk' = [disk EXCEPT ![argv[i]] = Image(e)]
    /\ written' = written \cup {argv[i]}
    /\ handles' = handles \ {i}
    /\ fds' = fds \ {i}
    /\ Return
    /\ UNCHANGED <<argv, status>>

\* main's loop is over: return (0)
MainReturn ==
    /\ pc = "main"
    /\ i > Len(argv)
    /\ pc' = "exit"
    /\ status' = 0
    /\ UNCHANGED <<argv, disk, i, e, plist, instscn, instrelscn, handles,
                   fds, written>>

Next ==
    \/ OpenObj
    \/ ScanObj
    \/ AddSections
    \/ RecordInstance
    \/ Flush
    \/ MainReturn

Spec == Init /\ [][Next]_vars

(***************************************************************************)
(* Vocabulary of the properties.  During a pass over argv[i] the file is   *)
(* not written before elf_update, so disk[argv[i]] is the object as it     *)
(* was when the pass opened it.                                            *)
(***************************************************************************)
InPass == pc \in {"scan", "scanned", "record"}

Cur == disk[argv[i]]

StubName(name) ==
    Len(name) >= 15 /\ SubSeq(name, 1, 15) = "__dtrace_probe_"

TextRelScns(o) ==
    {k \in 1..Len(o.scns) :
        /\ o.scns[k].sh_type \in {"SHT_REL", "SHT_RELA"}
        /\ o.scns[k].sh_info \in 1..Len(o.scns)
        /\ get_scn_name(o, o.scns[k].sh_info) = ".text"}

RelSymName(o, k, j) ==
    LET info == o.scns[k].data[j].r_info
        ndx == BitsToNat({b - 32 : b \in {x \in info : x >= 32}})
    IN  o.scns[o.scns[k].sh_link].data[ndx + 1].st_name

\* the probe stub relocations against .text of object o: <<section, entry>>
StubRels(o) ==
    UNION { { <<k, j>> : j \in {x \in 1..Len(o.scns[k].data) :
                                  StubName(RelSymName(o, k, x))} } :
            k \in TextRelScns(o) }

RelOffset(o, p) == o.scns[p[1]].data[p[2]].r_offset
TextOfRel(o, p) == o.scns[o.scns[p[1]].sh_info].data

\* the five bytes of the call site of relocation p, in the text of object x
SiteBytes(x, o, p) ==
    [k \in 1..5 |-> TextOfRel(x, p)[RelOffset(o, p) - 1 + k]]

\* C1: once the scan of an object is over, the call site of every probe stub
\* relocation holds 90 90 90 90 90 if its opcode was E8 and C3 90 90 90 90
\* if it was E9, and every byte outside these call sites is as it was.
C1_NopPattern ==
    pc \in {"scanned", "record"} =>
        LET stubs == StubRels(Cur)
            covered == {<<Cur.scns[p[1]].sh_info, RelOffset(Cur, p) + d>> :
                          p \in stubs, d \in 0..4}
        IN  /\ \A p \in stubs :
                LET op == TextOfRel(Cur, p)[RelOffset(Cur, p)]
                IN  /\ op \in {232, 233}
                    /\ op = 232 =>
                        SiteBytes(e, Cur, p) = <<144, 144, 144, 144, 144>>
                    /\ op = 233 =>
                        SiteBytes(e, Cur, p) = <<195, 144, 144, 144, 144>>
            /\ \A t \in 1..Len(Cur.scns) :
                Cur.scns[t].sh_type = "SHT_PROGBITS" =>
                    \A b \in 1..Len(Cur.scns[t].data) :
                        <<t, b>> \notin covered
                            => e.scns[t].data[b] = Cur.scns[t].data[b]

\* a scan that rewrote a direct call and a tail call, next to other bytes
C1_Witness ==
    /\ pc = "scanned"
    /\ \E p, q \in StubRels(Cur) :
        /\ TextOfRel(Cur, p)[RelOffset(Cur, p)] = 232
        /\ TextOfRel(Cur, q)[RelOffset(Cur, q)] = 233
        /\ SiteBytes(e, Cur, q)[1] = 195

\* C2: once the scan of an object is over, the info word of every probe stub
\* relocation has a type field of 0 (R_X86_64_NONE), every bit of it clear,
\* and the symbol index it had, whatever its type was.
C2_TypeZeroed ==
    pc \in {"scanned", "record"} =>
        \A p \in StubRels(Cur) :
            LET old == Cur.scns[p[1]].data[p[2]].r_info
                new == e.scns[p[1]].data[p[2]].r_info
            IN  /\ new \cap (0..31) = {}
                /\ new \cap (32..63) = old \cap (32..63)
                /\ new \subseteq 0..63

\* a scan that neutralized a relocation whose type had every bit set
C2_Witness ==
    /\ pc = "scanned"
    /\ \E p \in StubRels(Cur) :
        /\ Cur.scns[p[1]].data[p[2]].r_info \cap (0..31) = 0..31
        /\ e.scns[p[1]].data[p[2]].r_info \cap (0..31) = {}
        /\ e.scns[p[1]].data[p[2]].r_info # {}

\* the sequence of the offsets of the probe stub relocations of section k,
\* from entry j on, in ascending entry index
RECURSIVE StubOffsetsOfScn(_, _, _)
StubOffsetsOfScn(o, k, j) ==
    IF j > Len(o.scns[k].data) THEN <<>>
    ELSE (IF <<k, j>> \in StubRels(o)
          THEN <<o.scns[k].data[j].r_offset>> ELSE <<>>)
         \o StubOffsetsOfScn(o, k, j + 1)

\* the same over the sections from k on, in file order: the order in which
\* the scan processes the probe stub relocations
RECURSIVE ScanOrder(_, _)
ScanOrder(o, k) ==
    IF k > Len(o.scns) THEN <<>>
    ELSE (IF k \in TextRelScns(o) THEN StubOffsetsOfScn(o, k, 1) ELSE <<>>)
         \o ScanOrder(o, k + 1)

Reverse(s) == [k \in 1..Len(s) |-> s[Len(s) + 1 - k]]

RecordOffsets(x, scn) ==
    [k \in 1..Len(x.scns[scn].data) |-> x.scns[scn].data[k].offset]

\* every instance is recorded and the object is about to be written
AllRecorded == pc = "record" /\ plist = <<>>

\* C3 (as claimed): a pass over a file that an earlier pass has written
\* finds no probe stub relocation, changes nothing and does not end fatally.
C3_SecondRunNoOp ==
    (pc \in {"scan", "scanned", "record", "exit"} /\ i <= Len(argv)
        /\ argv[i] \in written)
    => /\ plist = <<>>
       /\ e = Cur
       /\ ~(pc = "exit" /\ status = 1)

\* C4 (as claimed): in a written file the instance set holds as many records
\* as its relocation section holds relocations, as many as the object has
\* probe stub relocations against .text.
C4_CountsEqual ==
    \A f \in written :
        LET inst == section_by_name(disk[f], "set_sdt_instance_set")
            rela == section_by_name(disk[f], ".relaset_sdt_instance_set")
            n == Cardinality(StubRels(disk[f]))
        IN  /\ inst # NOSCN
            /\ rela # NOSCN
            /\ Len(disk[f].scns[inst].data) = n
            /\ Len(disk[f].scns[rela].data) = n

HasDescriptor(o, symname) ==
    LET pset == section_by_name(o, "set_sdt_probes_set")
    IN  /\ pset # NOSCN
        /\ \E k \in 1..Len(o.scns) :
            /\ o.scns[k].sh_type \in {"SHT_REL", "SHT_RELA"}
            /\ o.scns[k].sh_info = pset
            /\ \E j \in 1..Len(o.scns[k].data) :
                RelSymName(o, k, j) = "sdt_" \o SubSeq(symname, 16, Len(symname))

\* C6 (as claimed): record_instance finds the instance's probe exactly if
\* the probe linker set has a relocation whose symbol is named sdt_<s>, and
\* ends fatally if it has none.
C6_ResolverIff ==
    (pc = "record" /\ plist # <<>>) =>
        (record_instance(e, instscn, Head(plist)).err = ""
            <=> HasDescriptor(e, Head(plist).symname))

\* object o has a probe stub call site and no probe linker set, or no
\* descriptor for one of its probe stubs, or a probe stub relocation whose
\* opcode byte is neither E8 nor E9
Doomed(o) ==
    /\ o.e_type = "ET_REL"
    /\ LET stubs == StubRels(o)
           pset == section_by_name(o, "set_sdt_probes_set")
       IN  \E p \in stubs :
            \/ pset = NOSCN
            \/ ~HasDescriptor(o, RelSymName(o, p[1], p[2]))
            \/ TextOfRel(o, p)[RelOffset(o, p)] \notin {232, 233}

\* C7: the program takes no step once it has exited, and every step of a
\* pass over a doomed object either stays in the pass or is the exit with
\* status 1; neither writes a file nor moves to another argument.
C7_FailureHalts ==
    [][/\ pc # "exit"
       /\ (InPass /\ Doomed(Cur)) =>
            /\ disk' = disk
            /\ written' = written
            /\ i' = i
            /\ \/ InPass'
               \/ pc' = "exit" /\ status' = 1]_vars

\* the exit with status 1 from a doomed object that was rewritten in
\* memory and given its new sections, with an argument left unprocessed
C7_Witness ==
    /\ pc = "exit"
    /\ status = 1
    /\ i < Len(argv)
    /\ Doomed(Cur)
    /\ instscn # NOSCN
    /\ e.scns[1].data # Cur.scns[1].data
    /\ written = {}

NoStubSym(o) ==
    \A k \in 1..Len(o.scns) :
        o.scns[k].sh_type = "SHT_SYMTAB" =>
            \A j \in 1..Len(o.scns[k].data) : ~StubName(o.scns[k].data[j].st_name)

\* C8: a pass over an object without a probe stub symbol leaves the object
\* in memory as it is in the file (bytes, relocations, section headers,
\* number of sections, dirty flags), records no instance and reaches
\* neither the recording nor the exit with status 1; the file is never
\* written, and the exit status is 0 if every argument is such an object.
C8_NoStubNoChange ==
    /\ (InPass /\ NoStubSym(Cur)) =>
            /\ e = Cur
            /\ plist = <<>>
            /\ pc # "record"
    /\ (pc = "exit" /\ status = 1) => ~NoStubSym(Cur)
    /\ \A f \in Files : NoStubSym(disk[f]) => f \notin written
    /\ (pc = "exit" /\ \A k \in 1..Len(argv) : NoStubSym(disk[argv[k]]))
            => status = 0

\* the scan of an object without a probe stub symbol and with relocations
\* against .text is over
C8_Witness ==
    /\ pc = "scanned"
    /\ NoStubSym(Cur)
    /\ Len(e.scns[2].data) >= 2
    /\ e.scns[2].sh_info = 1

\* C9: after the two calls of add_section, the name offset of the first new
\* section is the size the string table had before, that of the second is
\* the size it had between the calls, the table has grown by
\* strlen(name) + 1 with each call, and each name with its terminator lies
\* in the table at its offset: two adjacent ranges.
C9_NameOffsets ==
    (pc = "record") =>
        LET old == Cur.scns[Cur.e_shstrndx]
            new == e.scns[e.e_shstrndx]
            a == e.scns[instscn].sh_name
            b == e.scns[instrelscn].sh_name
        IN  /\ a = old.sh_size
            /\ b = old.sh_size + 21
            /\ new.sh_size = old.sh_size + 21 + 26
            /\ SubSeq(new.data, a + 1, a + 21) = "set_sdt_instance_set" \o NUL
            /\ SubSeq(new.data, b + 1, b + 26) =
                    ".relaset_sdt_instance_set" \o NUL
            /\ SubSeq(new.data, 1, old.sh_size) = old.data
            /\ Len(new.data) = new.sh_size

\* the two sections have been added to an object
C9_Witness ==
    /\ pc = "record"
    /\ instrelscn = instscn + 1
    /\ instrelscn = Len(e.scns)
    /\ get_scn_name(e, instscn) = "set_sdt_instance_set"
    /\ get_scn_name(e, instrelscn) = ".relaset_sdt_instance_set"

\* C10 (as claimed): when process_obj has returned, the ELF descriptor is
\* ended and the file descriptor closed, so that at most one of each is
\* open at any time.
C10_OneHandleOpen ==
    /\ Cardinality(handles) <= 1
    /\ Cardinality(fds) <= 1
    /\ pc = "main" => (handles = {} /\ fds = {})

====
